---- MODULE Spec2Model ----
(***************************************************************************)
(* Model of scripts/import-presets.py: the preset importer.                *)
(*                                                                         *)
(* One run of the script is the chain                                      *)
(*   ValidateInput -> OpenStore -> Reconcile* -> Commit -> Report          *)
(* with the two exits of the script (exit(1) and falling off the end).     *)
(* The script can be invoked again on the same file (Rerun).               *)
(*                                                                         *)
(* The store is modelled twice: `persisted` is what is durable on disk,    *)
(* `db` is what the run's connection sees (its open transaction).          *)
(***************************************************************************)
EXTENDS Integers, Sequences, FiniteSets, TLC

\* Longest `presets` sequence of an import document that is explored.
MaxLen == 2

\* A key that is absent from a JSON mapping.
Missing == "MISSING"
\* JSON null / Python None / SQL NULL.
None == "NULL"

\* Keys a record is indexed with (preset[...]); absent => KeyError.
Required == {"preset_id", "enabled", "name", "prompt", "order_index", "id", "created_at"}

-----------------------------------------------------------------------------
(* Inputs *)

\* A well-formed record of the export, all keys present.
FullPreset(pid) ==
  [id |-> "i1", preset_id |-> pid, name |-> "n1", description |-> "d1",
   enabled |-> "true", icon |-> "ic1", image_path |-> "im1", prompt |-> "p1",
   order_index |-> "1", created_at |-> "c1"]

\* A well-formed record with other values, a null and two absent optional keys.
OtherPreset(pid) ==
  [id |-> "i2", preset_id |-> pid, name |-> "n2", description |-> Missing,
   enabled |-> "false", icon |-> None, image_path |-> Missing, prompt |-> "p2",
   order_index |-> "2", created_at |-> "c2"]

\* The record p without the key k.
Drop(p, k) == [p EXCEPT ![k] = Missing]

Presets ==
  {FullPreset("a"), OtherPreset("a"), FullPreset("b")}
    \cup {Drop(FullPreset("a"), k) : k \in Required}

PresetSeqs == UNION {[1..n -> Presets] : n \in 0..MaxLen}

\* The import file: whether it exists, whether it parses as JSON, and the
\* top-level mapping it parses to.  `shape` says what the key `presets` is
\* bound to: "absent", "notalist" (any other JSON value) or "list".
InputFile(ex, js, sh, ps, cnt, at) ==
  [exists |-> ex, json |-> js, shape |-> sh, presets |-> ps,
   presetsCount |-> cnt, exportedAt |-> at]

InputFiles ==
  {InputFile(FALSE, FALSE, "absent", <<>>, Missing, Missing),
   InputFile(TRUE, FALSE, "absent", <<>>, Missing, Missing),
   InputFile(TRUE, TRUE, "absent", <<>>, "1", "t0"),
   InputFile(TRUE, TRUE, "notalist", <<>>, "1", "t0"),
   InputFile(TRUE, TRUE, "list", <<>>, Missing, "t0"),
   InputFile(TRUE, TRUE, "list", <<>>, "1", Missing)}
    \cup {InputFile(TRUE, TRUE, "list", ps, "1", "t0") : ps \in PresetSeqs}

\* Rows the application created before the importer runs.
RowA ==
  [id |-> "i0", preset_id |-> "a", name |-> "n0", description |-> None,
   enabled |-> 1, icon |-> None, image_path |-> None, prompt |-> "p0",
   order_index |-> "0", created_at |-> "c0", updated_at |-> 0]

RowC == [RowA EXCEPT !.id = "i9", !.preset_id = "c"]

InitialStores == {<<RowC>>, <<RowA, RowC>>}

\* What the store can do to one record's statements.
StoreFaults == {"none", "lookup", "write"}

-----------------------------------------------------------------------------
(* Pure parts of the script *)

\* 'presets' in import_data and isinstance(import_data['presets'], list)
HasPresetsList(f) == f.shape = "list"

\* The run gets past line 45: file exists, parses, has a presets list, and the
\* two informational keys that the script prints are present.
InputAccepted(f) ==
  /\ f.exists
  /\ f.json
  /\ HasPresetsList(f)
  /\ f.presetsCount # Missing
  /\ f.exportedAt # Missing

\* preset.get(k)
Get(p, k) == IF p[k] = Missing THEN None ELSE p[k]

\* 1 if preset['enabled'] else 0
Truthy(v) == v \notin {"false", None}
EnabledInt(v) == IF Truthy(v) THEN 1 ELSE 0

\* SELECT id FROM preset_prompts WHERE preset_id = ? ; fetchone() is not None
\* Faulty variant: the lookup never finds a row.
ExistingAlwaysAbsent(rows, pid) == FALSE
Existing(rows, pid) == \E i \in DOMAIN rows : rows[i].preset_id = pid

\* UPDATE preset_prompts SET ... WHERE preset_id = ?
UpdatedRow(r, p, ts) ==
  [r EXCEPT !.name = p.name, !.description = Get(p, "description"),
            !.enabled = EnabledInt(p.enabled), !.icon = Get(p, "icon"),
            !.image_path = Get(p, "image_path"), !.prompt = p.prompt,
            !.order_index = p.order_index, !.updated_at = ts]

\* Faulty variant: the UPDATE has no WHERE clause.
UpdateRowsNoWhere(rows, p, ts) ==
  [i \in DOMAIN rows |-> UpdatedRow(rows[i], p, ts)]
\* Faulty variant: the UPDATE also sets id and created_at.
UpdateRowsAll(rows, p, ts) ==
  [i \in DOMAIN rows |->
     IF rows[i].preset_id = p.preset_id
       THEN [UpdatedRow(rows[i], p, ts) EXCEPT !.id = p.id, !.created_at = p.created_at]
       ELSE rows[i]]
UpdateRows(rows, p, ts) ==
  [i \in DOMAIN rows |->
     IF rows[i].preset_id = p.preset_id THEN UpdatedRow(rows[i], p, ts) ELSE rows[i]]

\* INSERT INTO preset_prompts (...) VALUES (...)
\* Faulty variant: the INSERT stores nothing.
InsertRowLost(rows, p, ts) == rows
InsertRow(rows, p, ts) ==
  Append(rows,
    [id |-> p.id, preset_id |-> p.preset_id, name |-> p.name,
     description |-> Get(p, "description"), enabled |-> EnabledInt(p.enabled),
     icon |-> Get(p, "icon"), image_path |-> Get(p, "image_path"),
     prompt |-> p.prompt, order_index |-> p.order_index,
     created_at |-> p.created_at, updated_at |-> ts])

\* The keys the body of the inner try indexes on each path; the first absent
\* one raises KeyError.
KeysOfUpdate == {"preset_id", "enabled", "name", "prompt", "order_index"}
KeysOfInsert == Required

\* The inner try raises: a KeyError, or the store fails a statement.
Raises(p, rows, fault) ==
  \/ p.preset_id = Missing
  \/ fault = "lookup"
  \/ IF Existing(rows, p.preset_id)
       THEN \E k \in KeysOfUpdate : p[k] = Missing
       ELSE \E k \in KeysOfInsert : p[k] = Missing
  \/ fault = "write"

\* The store failed a statement that the record actually reached.
StoreFailed(p, rows, fault) ==
  /\ p.preset_id # Missing
  /\ \/ fault = "lookup"
     \/ /\ fault = "write"
        /\ IF Existing(rows, p.preset_id)
             THEN \A k \in KeysOfUpdate : p[k] # Missing
             ELSE \A k \in KeysOfInsert : p[k] # Missing

\* datetime.utcnow() on line 64 is reached.
ReadsClock(p, fault) ==
  p.preset_id # Missing /\ fault # "lookup" /\ p.enabled # Missing

\* What one iteration of the loop ends as.  The handler of the inner try
\* prints preset['name']: when that key is absent the handler itself raises
\* and the exception leaves the loop ("abort").
Outcome(p, rows, fault) ==
  IF Raises(p, rows, fault)
    THEN (IF p.name = Missing THEN "abort" ELSE "skipped")
    ELSE (IF Existing(rows, p.preset_id) THEN "updated" ELSE "inserted")

\* The connection's view of the table after the iteration.
\* Faulty variant: every record is inserted, whatever the lookup found.
AppliedNoLookup(p, rows, fault, ts) ==
  IF Raises(p, rows, fault) THEN rows ELSE InsertRow(rows, p, ts)
Applied(p, rows, fault, ts) ==
  IF Raises(p, rows, fault) THEN rows
  ELSE IF Existing(rows, p.preset_id) THEN UpdateRows(rows, p, ts)
  ELSE InsertRow(rows, p, ts)

\* inserted += 1 / updated += 1 / skipped += 1
\* Faulty variant: skipped records are not counted.
TallyDropsSkips(n, outcome, which) ==
  IF outcome = which /\ which # "skipped" THEN n + 1 ELSE n
Tally(n, outcome, which) == IF outcome = which THEN n + 1 ELSE n

\* sqlite3's implicit transaction: a statement leaves the durable store alone
\* until conn.commit().
\* Faulty variant: a connection in autocommit mode.
DurableAutocommit(durable, view) == view
DurableAfterStatement(durable, view) == durable

-----------------------------------------------------------------------------
(* State *)

VARIABLES
  file,       \* the import file (the same for both invocations)
  run,        \* "first" or "second" invocation of the script
  pc,         \* "start", "open", "loop", "report", "done", "fatal"
  exitStatus, \* -1 while running, then 0 or 1
  fh,         \* the file handle f: "none", "closed" (never left open)
  conn,       \* the connection: "none", "open", "closed"
  persisted,  \* durable content of preset_prompts
  db,         \* content of preset_prompts as the connection sees it
  before,     \* durable content when this invocation started
  idx,        \* 1-based index of the next record of the loop
  inserted, updated, skipped,
  clock,      \* latest time read from the wall clock
  log,        \* per finished record: <<outcome, timestamp used>>
  storeErr,   \* the store failed a statement or the commit in this invocation
  commits,    \* number of successful conn.commit() in this invocation
  prevClean   \* the first invocation reported without any store failure

vars == <<file, run, pc, exitStatus, fh, conn, persisted, db, before, idx,
          inserted, updated, skipped, clock, log, storeErr, commits, prevClean>>

Init ==
  /\ file \in InputFiles
  /\ run = "first"
  /\ pc = "start"
  /\ exitStatus = -1
  /\ fh = "none"
  /\ conn = "none"
  /\ persisted \in InitialStores
  /\ db = persisted
  /\ before = persisted
  /\ idx = 1
  /\ inserted = 0 /\ updated = 0 /\ skipped = 0
  /\ clock = 1
  /\ log = <<>>
  /\ storeErr = FALSE
  /\ commits = 0
  /\ prevClean = FALSE

\* Lines 29-45: existence check, open/parse inside `with`, format check, and
\* the two prints that index presetsCount and exportedAt.
\* Faulty variant: the store is opened before the input is validated.
ValidateInputConnectsFirst ==
  /\ pc = "start"
  /\ fh' = IF file.exists THEN "closed" ELSE "none"
  /\ conn' = "open"
  /\ IF InputAccepted(file)
       THEN pc' = "open" /\ exitStatus' = exitStatus
       ELSE pc' = "fatal" /\ exitStatus' = 1
  /\ UNCHANGED <<file, run, persisted, db, before, idx, inserted, updated,
                 skipped, clock, log, storeErr, commits, prevClean>>
ValidateInput ==
  /\ pc = "start"
  /\ fh' = IF file.exists THEN "closed" ELSE "none"
  /\ IF InputAccepted(file)
       THEN pc' = "open" /\ exitStatus' = exitStatus
       ELSE pc' = "fatal" /\ exitStatus' = 1
  /\ UNCHANGED <<file, run, conn, persisted, db, before, idx, inserted, updated,
                 skipped, clock, log, storeErr, commits, prevClean>>

\* Lines 48-53: sqlite3.connect, cursor, counters.  A failing connect is
\* caught by the outer handler (exit 1) with no connection made.
OpenStore ==
  /\ pc = "open"
  /\ \E ok \in BOOLEAN :
       IF ok
         THEN /\ conn' = "open"
              /\ pc' = "loop"
              /\ UNCHANGED <<exitStatus, storeErr>>
         ELSE /\ conn' = conn
              /\ pc' = "fatal"
              /\ exitStatus' = 1
              /\ storeErr' = TRUE
  /\ idx' = 1
  /\ inserted' = 0 /\ updated' = 0 /\ skipped' = 0
  /\ db' = persisted
  /\ UNCHANGED <<file, run, fh, persisted, before, clock, log, commits, prevClean>>

\* Lines 56-116: one iteration of the loop, handler included.
Reconcile ==
  /\ pc = "loop"
  /\ idx <= Len(file.presets)
  /\ \E fault \in StoreFaults, t \in {clock, clock + 1} :
       LET p == file.presets[idx]
           o == Outcome(p, db, fault)
           ts == IF ReadsClock(p, fault) THEN t ELSE clock
       IN /\ clock' = ts
          /\ db' = Applied(p, db, fault, ts)
          /\ persisted' = DurableAfterStatement(persisted, db')
          /\ inserted' = Tally(inserted, o, "inserted")
          /\ updated' = Tally(updated, o, "updated")
          /\ skipped' = Tally(skipped, o, "skipped")
          /\ storeErr' = (storeErr \/ StoreFailed(p, db, fault))
          /\ log' = Append(log, <<o, ts>>)
          /\ IF o = "abort"
               THEN pc' = "fatal" /\ exitStatus' = 1 /\ idx' = idx
               ELSE pc' = "loop" /\ exitStatus' = exitStatus /\ idx' = idx + 1
  /\ UNCHANGED <<file, run, fh, conn, before, commits, prevClean>>

\* Lines 119-120: conn.commit(); conn.close().  With no write pending the
\* commit has nothing to do; with writes pending the store may refuse it, and
\* the exception is caught by the outer handler, which exits without closing.
Commit ==
  /\ pc = "loop"
  /\ idx > Len(file.presets)
  /\ \E ok \in (IF inserted + updated > 0 THEN BOOLEAN ELSE {TRUE}) :
       IF ok
         THEN /\ persisted' = db
              /\ commits' = commits + 1
              /\ conn' = "closed"
              /\ pc' = "report"
              /\ UNCHANGED <<exitStatus, storeErr>>
         ELSE /\ pc' = "fatal"
              /\ exitStatus' = 1
              /\ storeErr' = TRUE
              /\ UNCHANGED <<persisted, commits, conn>>
  /\ UNCHANGED <<file, run, fh, db, before, idx, inserted, updated, skipped,
                 clock, log, prevClean>>

\* Lines 122-134: the summary; the script ends with status 0.
Report ==
  /\ pc = "report"
  /\ pc' = "done"
  /\ exitStatus' = 0
  /\ UNCHANGED <<file, run, fh, conn, persisted, db, before, idx, inserted,
                 updated, skipped, clock, log, storeErr, commits, prevClean>>

\* The script is invoked a second time on the same file.  The first process
\* is gone: what its connection had not committed is rolled back.
Rerun ==
  /\ run = "first"
  /\ pc \in {"done", "fatal"}
  /\ run' = "second"
  /\ prevClean' = (pc = "done" /\ ~storeErr)
  /\ pc' = "start"
  /\ exitStatus' = -1
  /\ fh' = "none"
  /\ conn' = "none"
  /\ db' = persisted
  /\ before' = persisted
  /\ idx' = 1
  /\ inserted' = 0 /\ updated' = 0 /\ skipped' = 0
  /\ log' = <<>>
  /\ storeErr' = FALSE
  /\ commits' = 0
  /\ UNCHANGED <<file, persisted, clock>>

Next ==
  \/ ValidateInput
  \/ OpenStore
  \/ Reconcile
  \/ Commit
  \/ Report
  \/ Rerun

Spec == Init /\ [][Next]_vars

-----------------------------------------------------------------------------
(* Vocabulary of the properties *)

Doc == file.presets
N == Len(Doc)

WellFormed(p) == \A k \in Required : p[k] # Missing
AllWellFormed == \A i \in 1..N : WellFormed(Doc[i])
DocIds == {Doc[i].preset_id : i \in 1..N}
IdsOf(rows) == {rows[i].preset_id : i \in DOMAIN rows}
Has(rows, r) == \E i \in DOMAIN rows : rows[i] = r
UniqueIds(rows) ==
  \A i, j \in DOMAIN rows : rows[i].preset_id = rows[j].preset_id => i = j
DistinctDocIds == \A i, j \in 1..N : Doc[i].preset_id = Doc[j].preset_id => i = j
Succeeded(i) == log[i][1] \in {"inserted", "updated"}

\* The row holds the values of the record p in the columns an import writes.
HoldsColumns(r, p) ==
  /\ r.name = p.name
  /\ r.description = (IF p.description = Missing THEN None ELSE p.description)
  /\ r.enabled = (IF p.enabled = "true" THEN 1 ELSE 0)
  /\ r.icon = (IF p.icon = Missing THEN None ELSE p.icon)
  /\ r.image_path = (IF p.image_path = Missing THEN None ELSE p.image_path)
  /\ r.prompt = p.prompt
  /\ r.order_index = p.order_index

\* The same, written at time ts.
HoldsValues(r, p, ts) == HoldsColumns(r, p) /\ r.updated_at = ts

\* Two tables agree on every column but updated_at, and on every column of
\* the rows whose preset_id is not in the document.
SameButUpdatedAt(s, t) ==
  /\ Len(s) = Len(t)
  /\ \A i \in DOMAIN s :
       /\ [s[i] EXCEPT !.updated_at = 0] = [t[i] EXCEPT !.updated_at = 0]
       /\ s[i].preset_id \notin DocIds => s[i] = t[i]

-----------------------------------------------------------------------------
(* C1 *)

\* C1: a record whose reconciliation raises never aborts the run: every
\* finished record that raised is counted in `skipped`, and a run that opened
\* the store stops only after the whole loop (it reaches the commit).
C1_RaisingRecordNeverAborts ==
  /\ skipped = Cardinality({i \in DOMAIN log : ~Succeeded(i)})
  /\ (pc = "fatal" /\ conn = "open") => idx > N

-----------------------------------------------------------------------------
(* C2 *)

\* C2 as stated, read in its favour (every record well-formed, no store
\* failure in either run): the second of two runs on the same document of N
\* records reports inserted = 0 and updated = N and leaves the store content
\* identical to that after the first run.
C2_SecondRunIdentical ==
  (run = "second" /\ pc = "done" /\ prevClean /\ ~storeErr /\ AllWellFormed)
    => (inserted = 0 /\ updated = N /\ persisted = before)

\* C2 amended: under the same conditions the second run reports inserted = 0,
\* updated = N, skipped = 0, and the store content equals that after the first
\* run on every column except updated_at of the rows the document names.
C2_SecondRunSameButUpdatedAt ==
  (run = "second" /\ pc = "done" /\ prevClean /\ ~storeErr /\ AllWellFormed)
    => /\ inserted = 0 /\ updated = N /\ skipped = 0
       /\ SameButUpdatedAt(persisted, before)

C2_Witness ==
  /\ run = "second" /\ pc = "done" /\ prevClean /\ ~storeErr /\ AllWellFormed
  /\ N >= 1
  /\ persisted # before

-----------------------------------------------------------------------------
(* C3 *)

\* C3 as stated, read in its favour (no store failure): N well-formed
\* records, none of whose preset_id is in the store before the run: the run
\* adds N rows and reports inserted = N, updated = 0, skipped = 0.
C3_AllInserted ==
  (pc = "done" /\ ~storeErr /\ AllWellFormed /\ DocIds \cap IdsOf(before) = {})
    => /\ Len(persisted) = Len(before) + N
       /\ inserted = N /\ updated = 0 /\ skipped = 0

\* C3 amended: the same, for documents whose records have pairwise distinct
\* preset_ids.
C3_AllInsertedDistinct ==
  (pc = "done" /\ ~storeErr /\ AllWellFormed /\ DistinctDocIds
     /\ DocIds \cap IdsOf(before) = {})
    => /\ Len(persisted) = Len(before) + N
       /\ \A i \in 1..N : \E j \in DOMAIN persisted :
            /\ j > Len(before)
            /\ persisted[j].preset_id = Doc[i].preset_id
            /\ persisted[j].id = Doc[i].id
            /\ persisted[j].created_at = Doc[i].created_at
            /\ HoldsValues(persisted[j], Doc[i], log[i][2])
       /\ \A j \in 1..Len(before) : persisted[j] = before[j]
       /\ inserted = N /\ updated = 0 /\ skipped = 0

C3_Witness ==
  /\ pc = "done" /\ ~storeErr /\ AllWellFormed /\ DistinctDocIds
  /\ DocIds \cap IdsOf(before) = {}
  /\ N = 2
  /\ inserted = 2

-----------------------------------------------------------------------------
(* C4 *)

\* C4 as stated, read in its favour (the run reports, no store failure, the
\* record is well-formed): for every record whose preset_id matches a row that
\* existed before the run, after the run that row holds the record's values,
\* an updated_at read during the run, and the id and created_at it had before.
C4_RowHoldsEveryRecord ==
  (pc = "done" /\ ~storeErr)
    => \A i \in 1..N : \A b \in DOMAIN before :
         (WellFormed(Doc[i]) /\ before[b].preset_id = Doc[i].preset_id)
           => \E j \in DOMAIN persisted :
                /\ persisted[j].preset_id = Doc[i].preset_id
                /\ HoldsColumns(persisted[j], Doc[i])
                /\ \E k \in DOMAIN log : persisted[j].updated_at = log[k][2]
                /\ persisted[j].id = before[b].id
                /\ persisted[j].created_at = before[b].created_at

\* C4 amended: for every record whose preset_id matches a row that existed
\* before the run, whose reconciliation did not raise, and which no later
\* successfully reconciled record of the same preset_id has overwritten, the
\* row as the connection sees it holds the record's values (enabled as 0/1,
\* updated_at the time read for that record) with the id and created_at it had
\* before the run; after the commit these are the durable values.
C4_RowHoldsLastRecord ==
  /\ \A i \in DOMAIN log : \A b \in DOMAIN before :
       ( /\ Succeeded(i)
         /\ before[b].preset_id = Doc[i].preset_id
         /\ ~\E k \in DOMAIN log :
               k > i /\ Succeeded(k) /\ Doc[k].preset_id = Doc[i].preset_id )
         => /\ log[i][1] = "updated"
            /\ \E j \in DOMAIN db :
                 /\ db[j].preset_id = Doc[i].preset_id
                 /\ HoldsValues(db[j], Doc[i], log[i][2])
                 /\ db[j].id = before[b].id
                 /\ db[j].created_at = before[b].created_at
  /\ commits = 1 => persisted = db

C4_Witness ==
  /\ pc = "done"
  /\ \E i \in DOMAIN log : \E b \in DOMAIN before :
       /\ log[i][1] = "updated"
       /\ before[b].preset_id = Doc[i].preset_id
       /\ Doc[i].id # before[b].id
       /\ Doc[i].created_at # before[b].created_at
       /\ Doc[i].name # before[b].name
       /\ \E j \in DOMAIN persisted :
            persisted[j].preset_id = Doc[i].preset_id /\ persisted[j].name = Doc[i].name

-----------------------------------------------------------------------------
(* C5 *)

\* The two input failures of the claim: the file is absent, or it parses to a
\* document without a `presets` key bound to a sequence.
InputFailure(f) == ~f.exists \/ (f.json /\ f.shape # "list")

\* C5: a run on such an input ends Fatal with exit status 1 and never opens
\* or accesses the store: no connection, no reconciled record, no commit, and
\* the store as it was.
C5_FatalInputBeforeStore ==
  InputFailure(file)
    => /\ pc \in {"start", "fatal"}
       /\ pc = "fatal" => exitStatus = 1
       /\ conn = "none"
       /\ log = <<>>
       /\ commits = 0
       /\ db = before /\ persisted = before

C5_Witness ==
  /\ InputFailure(file) /\ file.exists
  /\ pc = "fatal" /\ exitStatus = 1 /\ conn = "none"

-----------------------------------------------------------------------------
(* C6 *)

\* C6: at most one commit per run, issued after the whole loop; wherever the
\* run stops before it the durable store is as it was before the run, and
\* after it every write of the run is durable.
C6_SingleTerminalCommit ==
  /\ commits <= 1
  /\ commits = 0 => persisted = before
  /\ commits = 1 => (persisted = db /\ idx > N /\ Len(log) = N)

\* An exception escaped the loop with writes pending: nothing of them is durable.
C6_Witness ==
  /\ pc = "fatal" /\ conn = "open" /\ idx <= N
  /\ db # before
  /\ persisted = before

-----------------------------------------------------------------------------
(* C7 *)

\* C7: in every terminal state the file handle is closed and a connection
\* that was opened has been closed.
C7_ResourcesReleased ==
  pc \in {"done", "fatal"} => (fh # "open" /\ conn # "open")

-----------------------------------------------------------------------------
(* C8 *)

\* C8: every row that was in the store before the run and whose preset_id is
\* not in the document is still there, every column unchanged, both in the
\* connection's view and durably; no preset_id ever leaves the store.
C8_UnrelatedRowsUntouched ==
  /\ \A b \in DOMAIN before :
       before[b].preset_id \notin DocIds
         => (db[b] = before[b] /\ persisted[b] = before[b])
  /\ Len(db) >= Len(before) /\ Len(persisted) >= Len(before)
  /\ IdsOf(before) \subseteq IdsOf(db)
  /\ IdsOf(before) \subseteq IdsOf(persisted)

C8_Witness ==
  /\ pc = "done"
  /\ updated >= 1 /\ inserted >= 1
  /\ \E b \in DOMAIN before : before[b].preset_id \notin DocIds /\ Has(persisted, before[b])

-----------------------------------------------------------------------------
(* C9 *)

\* C9: no two rows share a preset_id, in the connection's view and durably.
C9_PresetIdUnique == UniqueIds(db) /\ UniqueIds(persisted)

\* A document that repeats a preset_id new to the store has been imported.
C9_Witness ==
  /\ pc = "done" /\ run = "first"
  /\ \E i, j \in 1..N :
       /\ i < j
       /\ Doc[i].preset_id = Doc[j].preset_id
       /\ Doc[i].preset_id \notin IdsOf(before)
       /\ log[i][1] = "inserted" /\ log[j][1] = "updated"

-----------------------------------------------------------------------------
(* C10 *)

====
